---- MODULE Spec2Model ----
(***************************************************************************)
(* Model of the block cache reference model of nakamoto-chain              *)
(* (block/cache/model.rs): a header store, the active chain selected by    *)
(* cumulative work, import_blocks and rollback.                            *)
(***************************************************************************)
EXTENDS Integers, Sequences, FiniteSets, TLC

VARIABLES headers, chain, tip, genesis, ret, rb, walk

vars == <<headers, chain, tip, genesis, ret, rb, walk>>

(* ------------------------------ bounds --------------------------------- *)

\* Longest batch handed to one import_blocks call.
MaxBatch == 2

\* Largest height handed to rollback.
MaxRollback == 3

\* Number of enumeration orders of the store's keys that are explored.
NumSeeds == 2

\* Longest vector handed to Cache::from.
MaxFrom == 3

(* ------------------------------ headers -------------------------------- *)

\* BitcoinHash::bitcoin_hash: a digest of the header's contents, one of the
\* identities 1..61. It is injective on Universe, and no header of Universe
\* is its own ancestor.
bitcoin_hash(h) == ((h.prev * 5 + h.bits * 11 + h.nonce * 7) % 61) + 1

\* BlockHeader::work: the work of a header, 2^w / (target + 1), with w = 2.
work(h) == 4 \div (h.bits + 1)

Hdr(p, b, n) == [prev |-> p, bits |-> b, nonce |-> n]

\* A root header R, whose prev_blockhash 0 is the identity of no header; on it the branch A1, A2 and the single headers B1 (as
\* much work as A1 and A2 together) and C1 (more work than any other branch).
R == Hdr(0, 3, 0)
A1 == Hdr(bitcoin_hash(R), 3, 1)
A2 == Hdr(bitcoin_hash(A1), 3, 0)
B1 == Hdr(bitcoin_hash(R), 1, 0)
C1 == Hdr(bitcoin_hash(R), 0, 0)
\* A header whose predecessor is the identity of no header.
X == Hdr(59, 3, 0)

Universe == {R, A1, A2, B1, C1, X}

\* The headers Cache::new is given: a root, or a header that has a predecessor.
GenesisHeaders == {R, A1}

(* ------------------------------ helpers -------------------------------- *)

Last(s) == s[Len(s)]

\* Mutant: the whole chain taken for its tail.
TailOf_Whole(c) == c

\* NonEmpty::tail: every element but the head.
TailOf(c) == SubSeq(c, 2, Len(c))

RECURSIVE SeqSum(_)
SeqSum(s) == IF s = <<>> THEN 0 ELSE work(s[1]) + SeqSum(Tail(s))

\* Branch::work: the sum of the work of the headers of a branch.
BranchWork(s) == SeqSum(s)

\* Mutant: only the first header of the iterator is inserted.
InsertAll_First(hs, batch) ==
    IF batch = <<>> THEN hs
    ELSE LET h == batch[1]
             k == bitcoin_hash(h)
         IN [x \in (DOMAIN hs) \cup {k} |-> IF x = k THEN h ELSE hs[x]]

\* HashMap::insert of every header in the iterator, in order.
RECURSIVE InsertAll(_, _)
InsertAll(hs, batch) ==
    IF batch = <<>> THEN hs
    ELSE LET h == batch[1]
             k == bitcoin_hash(h)
         IN InsertAll([x \in (DOMAIN hs) \cup {k} |-> IF x = k THEN h ELSE hs[x]],
                      Tail(batch))

\* Mutant: the entry removed is the one the header names as predecessor.
RemoveAll_Prev(hs, blocks) ==
    LET gone == {blocks[i].prev : i \in 1..Len(blocks)}
    IN [x \in (DOMAIN hs) \ gone |-> hs[x]]

\* HashMap::remove of the identity of every header of a sequence.
RemoveAll(hs, blocks) ==
    LET gone == {bitcoin_hash(blocks[i]) : i \in 1..Len(blocks)}
    IN [x \in (DOMAIN hs) \ gone |-> hs[x]]

\* HashMap::keys: the keys in the order of the hasher seeded with seed.
RECURSIVE SortKeys(_, _)
SortKeys(ks, seed) ==
    IF ks = {} THEN <<>>
    ELSE LET k == CHOOSE a \in ks :
                    \A b \in ks : (a * seed) % 67 <= (b * seed) % 67
         IN <<k>> \o SortKeys(ks \ {k}, seed)

Keys(hs, seed) == SortKeys(DOMAIN hs, seed)

(* --------------------------- Cache::branch ----------------------------- *)

\* The while-let loop of branch: follow prev_blockhash while the store has it.
RECURSIVE Walk(_, _, _)
Walk(hs, t, acc) ==
    IF t \in DOMAIN hs
    THEN Walk(hs, hs[t].prev, <<hs[t]>> \o acc)
    ELSE acc

\* Mutant: the root of the walk is not compared with genesis.
branch_AnyRoot(hs, gen, t) == Walk(hs, t, <<>>)

\* Cache::branch: None is the empty sequence.
branch(hs, gen, t) ==
    LET walked == Walk(hs, t, <<>>)
    IN IF walked # <<>> /\ bitcoin_hash(walked[1]) = gen THEN walked ELSE <<>>

(* ------------------------ Cache::longest_chain ------------------------- *)

\* Mutant: branches compared by their number of headers.
CmpBranch_ByLength(a, b) ==
    IF Len(a) = Len(b)
    THEN IF bitcoin_hash(Last(b)) > bitcoin_hash(Last(a)) THEN "Greater" ELSE "Less"
    ELSE IF Len(a) > Len(b) THEN "Greater" ELSE "Less"

\* Mutant: branches of equal work compare equal.
CmpBranch_TieEqual(a, b) ==
    LET a_work == BranchWork(TailOf(a))
        b_work == BranchWork(TailOf(b))
    IN IF a_work = b_work THEN "Equal"
       ELSE IF a_work > b_work THEN "Greater" ELSE "Less"

\* The comparator of max_by: "Greater", "Less" (it never returns Equal for
\* branches of distinct tips).
CmpBranch(a, b) ==
    LET a_work == BranchWork(TailOf(a))
        b_work == BranchWork(TailOf(b))
    IN IF a_work = b_work
       THEN LET a_hash == bitcoin_hash(Last(a))
                b_hash == bitcoin_hash(Last(b))
            IN IF b_hash > a_hash THEN "Greater"
               ELSE IF b_hash < a_hash THEN "Less" ELSE "Equal"
       ELSE IF a_work > b_work THEN "Greater" ELSE "Less"

\* Iterator::max_by: the last of the maximal elements.
RECURSIVE MaxByFrom(_, _)
MaxByFrom(best, rest) ==
    IF rest = <<>> THEN best
    ELSE MaxByFrom(IF CmpBranch(best, rest[1]) = "Greater" THEN best ELSE rest[1],
                   Tail(rest))

MaxBy(bs) == IF bs = <<>> THEN <<>> ELSE MaxByFrom(bs[1], Tail(bs))

\* The branches pushed by the for loop over the keys.
RECURSIVE Branches(_, _, _)
Branches(hs, gen, ks) ==
    IF ks = <<>> THEN <<>>
    ELSE LET b == branch(hs, gen, ks[1])
         IN (IF b # <<>> THEN <<b>> ELSE <<>>) \o Branches(hs, gen, Tail(ks))

\* Cache::longest_chain: the empty sequence stands for the failed unwrap.
longest_chain(hs, gen, seed) == MaxBy(Branches(hs, gen, Keys(hs, seed)))

(* ------------------------------- state --------------------------------- *)

\* The value of the last call: its name, its arguments, whether it returned
\* or panicked, and the (BlockHash, Height) an import returned.
Ret(call, batch, h, status, val) ==
    [call |-> call, batch |-> batch, h |-> h, status |-> status, val |-> val]

\* The store and chain as they were when the last rollback was called;
\* age counts the imports since (the snapshot is dropped after one).
NoSnap == [age |-> 2, headers |-> <<>>, chain |-> <<>>, call |-> "none", h |-> 0]

EmptyStore == <<>>

\* The locals of a run of Cache::branch: the identity it was called with,
\* the identity the loop looks up next, and the headers pushed so far.
NoWalk == [start |-> 0, tip |-> 0, acc |-> <<>>]

\* The vectors Cache::from is given: connected, starting at a genesis header.
FromChains ==
    {c \in UNION {[1..n -> Universe] : n \in 1..MaxFrom} :
        /\ c[1] \in GenesisHeaders
        /\ \A i \in 1..(Len(c) - 1) : c[i + 1].prev = bitcoin_hash(c[i])}

\* A set of headers as a sequence, by ascending or by descending identity.
RECURSIVE Ordered(_, _)
Ordered(S, asc) ==
    IF S = {} THEN <<>>
    ELSE LET h == CHOOSE a \in S : \A b \in S :
                    IF asc THEN bitcoin_hash(a) <= bitcoin_hash(b)
                    ELSE bitcoin_hash(a) >= bitcoin_hash(b)
         IN <<h>> \o Ordered(S \ {h}, asc)

\* The iterators import_blocks is given: at most MaxBatch distinct headers.
Batches ==
    {Ordered(S, asc) : S \in {T \in SUBSET Universe : Cardinality(T) <= MaxBatch},
                       asc \in BOOLEAN}

\* Cache::new
New(g) ==
    /\ headers = InsertAll(EmptyStore, <<g>>)
    /\ chain = <<g>>
    /\ tip = bitcoin_hash(g)
    /\ genesis = bitcoin_hash(g)
    /\ ret = Ret("new", <<g>>, 0, "Ok", <<>>)
    /\ rb = NoSnap
    /\ walk = NoWalk

\* Cache::from, on a non-empty vector
From(c) ==
    /\ headers = InsertAll(EmptyStore, c)
    /\ chain = c
    /\ tip = bitcoin_hash(Last(c))
    /\ genesis = bitcoin_hash(c[1])
    /\ ret = Ret("from", c, 0, "Ok", <<>>)
    /\ rb = NoSnap
    /\ walk = NoWalk

Init ==
    \/ \E g \in GenesisHeaders : New(g)
    \/ \E c \in FromChains : From(c)

\* Cache::height
height(c) == Len(c) - 1

\* Cache::tip
Tip(c) == <<bitcoin_hash(Last(c)), Last(c)>>

\* Mutant: the height counts from one.
get_block_OneBased(c, hash) ==
    LET hits == {i \in 1..Len(c) : bitcoin_hash(c[i]) = hash}
    IN IF hits = {} THEN <<>>
       ELSE LET i == CHOOSE j \in hits : \A k \in hits : j <= k
            IN <<i, c[i]>>

\* Cache::get_block: (height, header) of the first match, None is <<>>.
get_block(c, hash) ==
    LET hits == {i \in 1..Len(c) : bitcoin_hash(c[i]) = hash}
    IN IF hits = {} THEN <<>>
       ELSE LET i == CHOOSE j \in hits : \A k \in hits : j <= k
            IN <<i - 1, c[i]>>

\* Mutant: the index is looked up in the tail only.
get_block_by_height_Tail(c, h) ==
    IF h < Len(TailOf(c)) THEN <<TailOf(c)[h + 1]>> ELSE <<>>

\* Cache::get_block_by_height (NonEmpty::get): Some(x) is <<x>>, None is <<>>.
get_block_by_height(c, h) ==
    IF h = 0 THEN <<c[1]>>
    ELSE IF h - 1 < Len(TailOf(c)) THEN <<TailOf(c)[h]>> ELSE <<>>

\* Mutant: the enumeration counts from one.
iter_OneBased(c) == [i \in 1..Len(c) |-> <<i, c[i]>>]

\* Cache::iter: the (height, header) pairs of the cloned chain, enumerated.
iter(c) == [i \in 1..Len(c) |-> <<i - 1, c[i]>>]

\* A panic unwinds out of the caller: no further call is made.
Alive == ret.status = "Ok"

\* Vec::drain(h..) on the tail: the range check, then the removed elements.
DrainPanics(t, h) == h > Len(t)

\* Mutant: the drain starts one element late.
Drained_FromNext(t, h) == SubSeq(t, h + 2, Len(t))

\* Mutant: the drain starts one element early.
Drained_OneMore(t, h) == SubSeq(t, IF h = 0 THEN 1 ELSE h, Len(t))

Drained(t, h) == SubSeq(t, h + 1, Len(t))

\* Mutant: the last h elements are kept instead of the first h.
Kept_Last(t, h) == SubSeq(t, Len(t) - h + 1, Len(t))

Kept(t, h) == SubSeq(t, 1, h)

\* Cache::rollback
rollback(h) ==
    /\ Alive
    /\ IF DrainPanics(TailOf(chain), h)
       THEN /\ ret' = Ret("rollback", <<>>, h, "Panic", <<>>)
            /\ rb' = NoSnap
            /\ UNCHANGED <<headers, chain, tip, genesis, walk>>
       ELSE /\ headers' = RemoveAll(headers, Drained(TailOf(chain), h))
            /\ chain' = <<chain[1]>> \o Kept(TailOf(chain), h)
            /\ ret' = Ret("rollback", <<>>, h, "Ok", <<>>)
            /\ rb' = [age |-> 0, headers |-> headers, chain |-> chain,
                      call |-> ret.call, h |-> h]
            /\ UNCHANGED <<tip, genesis, walk>>

\* Mutant: the pair returned is read before the chain is recomputed.
import_blocks_StaleRet(batch, seed) ==
    /\ Alive
    /\ headers' = InsertAll(headers, batch)
    /\ \E lc \in {longest_chain(headers', genesis, seed)} :
          IF lc = <<>>
          THEN /\ ret' = Ret("import_blocks", batch, 0, "Panic", <<>>)
               /\ UNCHANGED <<chain, tip>>
          ELSE /\ chain' = lc
               /\ tip' = bitcoin_hash(Last(chain'))
               /\ ret' = Ret("import_blocks", batch, 0, "Ok",
                             <<bitcoin_hash(Last(chain)), height(chain)>>)
    /\ rb' = IF rb.age = 0 THEN [rb EXCEPT !.age = 1] ELSE NoSnap
    /\ UNCHANGED <<genesis, walk>>

\* BlockTree::import_blocks
import_blocks(batch, seed) ==
    /\ Alive
    /\ headers' = InsertAll(headers, batch)
    /\ \E lc \in {longest_chain(headers', genesis, seed)} :
          IF lc = <<>>
          THEN /\ ret' = Ret("import_blocks", batch, 0, "Panic", <<>>)
               /\ UNCHANGED <<chain, tip>>
          ELSE /\ chain' = lc
               /\ tip' = bitcoin_hash(Last(chain'))
               /\ ret' = Ret("import_blocks", batch, 0, "Ok",
                             <<bitcoin_hash(Last(chain')), height(chain')>>)
    /\ rb' = IF rb.age = 0 THEN [rb EXCEPT !.age = 1] ELSE NoSnap
    /\ UNCHANGED <<genesis, walk>>

ImportBlocks == \E batch \in Batches : \E seed \in 1..NumSeeds : import_blocks(batch, seed)

Rollback == \E h \in 0..MaxRollback : rollback(h)

Next == ImportBlocks \/ Rollback

Spec == Init /\ [][Next]_vars

(* --------------------- construction as an operation -------------------- *)

\* No Cache has been constructed yet.
NotBuilt ==
    /\ headers = EmptyStore
    /\ chain = <<>>
    /\ tip = 0
    /\ genesis = 0
    /\ ret = Ret("none", <<>>, 0, "None", <<>>)
    /\ rb = NoSnap
    /\ walk = NoWalk

\* The vectors Cache::from is given, the empty one included.
FromVectors == FromChains \cup {<<>>}

\* Cache::new, called
new(g) ==
    /\ ret.call = "none"
    /\ headers' = InsertAll(EmptyStore, <<g>>)
    /\ chain' = <<g>>
    /\ tip' = bitcoin_hash(g)
    /\ genesis' = bitcoin_hash(g)
    /\ ret' = Ret("new", <<g>>, 0, "Ok", <<>>)
    /\ UNCHANGED <<rb, walk>>

\* Cache::from, called: NonEmpty::from_vec is None for the empty vector and
\* the unwrap panics.
from(c) ==
    /\ ret.call = "none"
    /\ IF c = <<>>
       THEN /\ ret' = Ret("from", c, 0, "Panic", <<>>)
            /\ UNCHANGED <<headers, chain, tip, genesis>>
       ELSE /\ headers' = InsertAll(EmptyStore, c)
            /\ chain' = c
            /\ tip' = bitcoin_hash(Last(c))
            /\ genesis' = bitcoin_hash(c[1])
            /\ ret' = Ret("from", c, 0, "Ok", <<>>)
    /\ UNCHANGED <<rb, walk>>

CacheNew == \E g \in GenesisHeaders : new(g)

CacheFrom == \E c \in FromVectors : from(c)

BuildNext == CacheNew \/ CacheFrom \/ ImportBlocks \/ Rollback

SpecBuild == NotBuilt /\ [][BuildNext]_vars

(* ------------------ Cache::branch, one iteration a step ---------------- *)

\* Most iterations of the loop of branch that are followed.
MaxWalk == 7

\* Two headers each of which names the other as its predecessor.
K1 == Hdr(6, 0, 0)
K2 == Hdr(bitcoin_hash(K1), 3, 0)

\* The stores branch is run on: R, which is genesis, and any of these.
WalkHeaders == {A1, A2, B1, K1, K2}

\* branch(&t) is entered on a store, for an identity t of the store.
WalkInit ==
    /\ \E S \in SUBSET WalkHeaders :
          headers = InsertAll(EmptyStore, Ordered(S \cup {R}, TRUE))
    /\ chain = <<R>>
    /\ tip = bitcoin_hash(R)
    /\ genesis = bitcoin_hash(R)
    /\ rb = NoSnap
    /\ \E t \in DOMAIN headers :
          /\ walk = [start |-> t, tip |-> t, acc |-> <<>>]
          /\ ret = Ret("branch", <<>>, t, "Running", <<>>)

\* One iteration of the while-let loop.
WalkStep ==
    /\ ret.status = "Running"
    /\ walk.tip \in DOMAIN headers
    /\ Len(walk.acc) < MaxWalk
    /\ walk' = [walk EXCEPT !.tip = headers[walk.tip].prev,
                            !.acc = <<headers[walk.tip]>> \o walk.acc]
    /\ UNCHANGED <<headers, chain, tip, genesis, ret, rb>>

\* The loop is left and the root is compared with genesis.
WalkReturn ==
    /\ ret.status = "Running"
    /\ walk.tip \notin DOMAIN headers
    /\ ret' = Ret("branch", <<>>, walk.start, "Ok",
                  IF walk.acc # <<>> /\ bitcoin_hash(walk.acc[1]) = genesis
                  THEN walk.acc ELSE <<>>)
    /\ UNCHANGED <<headers, chain, tip, genesis, rb, walk>>

WalkNext == WalkStep \/ WalkReturn

SpecWalk == WalkInit /\ [][WalkNext]_vars

(* ------------------- import_blocks as a function ----------------------- *)

\* The Cache import_blocks works on, and what the call made of it.
Cur == [headers |-> headers, chain |-> chain, tip |-> tip,
        status |-> ret.status, val |-> <<>>]

\* The assignments of import_blocks once the store hs and the result lc of
\* longest_chain are known.
ImportWith(st, hs, lc) ==
    IF lc = <<>>
    THEN [headers |-> hs, chain |-> st.chain, tip |-> st.tip,
          status |-> "Panic", val |-> <<>>]
    ELSE [headers |-> hs, chain |-> lc, tip |-> bitcoin_hash(Last(lc)),
          status |-> "Ok", val |-> <<bitcoin_hash(Last(lc)), height(lc)>>]

\* Mutant: the recomputed chain replaces the current one only when it has
\* more work (the first chain seen wins a tie).
ImportOp_FirstSeen(st, batch, seed) ==
    IF st.status # "Ok" THEN st
    ELSE LET hs == InsertAll(st.headers, batch)
             lc == longest_chain(hs, genesis, seed)
         IN IF lc # <<>> /\ BranchWork(TailOf(lc)) <= BranchWork(TailOf(st.chain))
                         /\ \A i \in 1..Len(st.chain) :
                               bitcoin_hash(st.chain[i]) \in DOMAIN hs
            THEN [headers |-> hs, chain |-> st.chain,
                  tip |-> bitcoin_hash(Last(st.chain)), status |-> "Ok",
                  val |-> <<bitcoin_hash(Last(st.chain)), height(st.chain)>>]
            ELSE ImportWith(st, hs, lc)

\* BlockTree::import_blocks on the Cache st; a Cache whose last call
\* panicked gets no further call.
ImportOp(st, batch, seed) ==
    IF st.status # "Ok" THEN st
    ELSE LET hs == InsertAll(st.headers, batch)
         IN ImportWith(st, hs, longest_chain(hs, genesis, seed))

\* BlockTree::import_blocks, the iterator not being kept
import_op(batch, seed) ==
    /\ Alive
    /\ \E r \in {ImportOp(Cur, batch, seed)} :
          /\ headers' = r.headers
          /\ chain' = r.chain
          /\ tip' = r.tip
          /\ ret' = Ret("import_blocks", <<>>, 0, r.status, r.val)
    /\ rb' = NoSnap
    /\ UNCHANGED <<genesis, walk>>

ImportOnly == \E batch \in Batches : \E seed \in 1..NumSeeds : import_op(batch, seed)

OrderNext == ImportOnly \/ Rollback

SpecOrder == Init /\ [][OrderNext]_vars

(* ----------------------- notions the claims use ------------------------ *)

\* The headers from genesis to t when following predecessor identities from
\* t arrives at the genesis identity; <<>> when it does not.
RECURSIVE GenesisPath(_, _, _)
GenesisPath(hs, gen, t) ==
    IF t \notin DOMAIN hs THEN <<>>
    ELSE IF t = gen THEN <<hs[t]>>
    ELSE LET p == GenesisPath(hs, gen, hs[t].prev)
         IN IF p = <<>> THEN <<>> ELSE Append(p, hs[t])

\* Work summed over the non-genesis headers of a genesis-rooted sequence.
CumulativeWork(p) == BranchWork(SubSeq(p, 2, Len(p)))

Returned(call) == ret.call = call /\ ret.status = "Ok"

SetOf(s) == {s[i] : i \in 1..Len(s)}

\* No header of the batch is linked to genesis through the store hs.
OnlyDisconnected(batch, hs, gen) ==
    \A i \in 1..Len(batch) : GenesisPath(hs, gen, bitcoin_hash(batch[i])) = <<>>

\* No genesis-rooted branch of the store is preferred to the chain c.
Selected(hs, gen, c) ==
    \A t \in DOMAIN hs :
        LET p == GenesisPath(hs, gen, t)
        IN p # <<>> =>
             \/ CumulativeWork(p) < CumulativeWork(c)
             \/ /\ CumulativeWork(p) = CumulativeWork(c)
                /\ bitcoin_hash(Last(c)) <= t

\* Every header of the store that is linked to genesis is on the chain c.
NoCompetingBranch(hs, gen, c) ==
    \A t \in DOMAIN hs : GenesisPath(hs, gen, t) # <<>> => hs[t] \in SetOf(c)

(* ------------------------------- claims -------------------------------- *)

\* C1: right after an import_blocks call returns, the Active Chain is a
\* genesis-rooted branch of the Header Store whose cumulative work is at
\* least that of every branch that leads from an identity of the store back
\* to genesis; a branch of fewer headers and more work is the one selected.
C1_MaxWork ==
    Returned("import_blocks") =>
        /\ chain = GenesisPath(headers, genesis, bitcoin_hash(Last(chain)))
        /\ \A t \in DOMAIN headers :
              LET p == GenesisPath(headers, genesis, t)
              IN p # <<>> => CumulativeWork(chain) >= CumulativeWork(p)

\* The one header C1 has been preferred to the two headers A1, A2.
C1_Witness ==
    /\ Returned("import_blocks")
    /\ ret.batch = <<C1>>
    /\ {bitcoin_hash(A1), bitcoin_hash(A2)} \subseteq DOMAIN headers
    /\ chain = <<R, C1>>
    /\ ret.val = <<bitcoin_hash(C1), 1>>

C3_ImportReturns == ret.call = "import_blocks" => ret.status = "Ok"

\* C4 (as stated): in any state, an import of headers none of which is
\* linked to genesis leaves the Active Chain (so tip() and height())
\* unchanged, get_block finds none of them, and the store holds them.
C4_Frame ==
    [][(ret'.call = "import_blocks" /\ OnlyDisconnected(ret'.batch, headers', genesis))
         => /\ chain' = chain
            /\ \A i \in 1..Len(ret'.batch) :
                  /\ get_block(chain', bitcoin_hash(ret'.batch[i])) = <<>>
                  /\ bitcoin_hash(ret'.batch[i]) \in DOMAIN headers']_vars

\* C4 (amended): the same, in the states where no genesis-rooted branch of
\* the store is preferred to the Active Chain (after construction and after
\* every import_blocks; a rollback may leave such a branch).
C4_Latent ==
    [][(/\ ret'.call = "import_blocks"
        /\ OnlyDisconnected(ret'.batch, headers', genesis)
        /\ Selected(headers, genesis, chain))
         => /\ chain' = chain
            /\ \A i \in 1..Len(ret'.batch) :
                  /\ get_block(chain', bitcoin_hash(ret'.batch[i])) = <<>>
                  /\ bitcoin_hash(ret'.batch[i]) \in DOMAIN headers']_vars

\* An import of two headers not linked to genesis has returned, the chain
\* being longer than genesis alone: one header names a predecessor that no
\* header has, the other a predecessor that the store lacks.
C4_Witness ==
    /\ Returned("import_blocks")
    /\ SetOf(ret.batch) = {A2, X}
    /\ OnlyDisconnected(ret.batch, headers, genesis)
    /\ bitcoin_hash(A1) \notin DOMAIN headers
    /\ Len(chain) >= 2
    /\ get_block(chain, bitcoin_hash(A2)) = <<>>

\* C5: rollback(h) with h <= height() returns Ok, leaves the former headers
\* 0..h as the Active Chain, and no header formerly above h is in the store.
C5_Rollback ==
    [][(ret'.call = "rollback" /\ ret'.h <= height(chain))
         => /\ ret'.status = "Ok"
            /\ chain' = SubSeq(chain, 1, ret'.h + 1)
            /\ height(chain') = ret'.h
            /\ Tip(chain') = <<bitcoin_hash(chain[ret'.h + 1]), chain[ret'.h + 1]>>
            /\ \A i \in (ret'.h + 2)..Len(chain) :
                  bitcoin_hash(chain[i]) \notin DOMAIN headers']_vars

\* A rollback below the former height has returned.
C5_Witness ==
    /\ Returned("rollback")
    /\ rb.age = 0
    /\ Len(rb.chain) > ret.h + 1
    /\ Len(chain) = ret.h + 1

\* C6: rollback(h) with h > height() returns the error InvalidHeight.
C6_InvalidHeight ==
    (ret.call = "rollback" /\ ret.h > height(chain)) => ret.status = "InvalidHeight"

\* The headers a rollback drained from the chain of the snapshot.
Removed(snap) == {snap.chain[i] : i \in (snap.h + 2)..Len(snap.chain)}

\* C7: after an import that left no branch competing with the Active
\* Chain, rollback(h) followed by one import of exactly the removed headers
\* restores the Active Chain, and with it tip() and height().
C7_RoundTrip ==
    (/\ ret.call = "import_blocks"
     /\ rb.age = 1
     /\ rb.call = "import_blocks"
     /\ NoCompetingBranch(rb.headers, genesis, rb.chain)
     /\ SetOf(ret.batch) = Removed(rb)
     /\ Len(ret.batch) = Cardinality(Removed(rb)))
      => /\ ret.status = "Ok"
         /\ chain = rb.chain
         /\ headers = rb.headers
         /\ ret.val = <<bitcoin_hash(Last(rb.chain)), height(rb.chain)>>

\* Two headers were rolled back and one import has brought them back.
C7_Witness ==
    /\ Returned("import_blocks")
    /\ rb.age = 1
    /\ rb.call = "import_blocks"
    /\ NoCompetingBranch(rb.headers, genesis, rb.chain)
    /\ Cardinality(Removed(rb)) = 2
    /\ SetOf(ret.batch) = Removed(rb)
    /\ Len(ret.batch) = 2

\* C8: the Active Chain is non-empty, each header after the first names the
\* header before it as its predecessor, and no header occurs twice.
C8_Linked ==
    /\ chain # <<>>
    /\ \A i \in 2..Len(chain) : chain[i].prev = bitcoin_hash(chain[i - 1])
    /\ \A i, j \in 1..Len(chain) : chain[i] = chain[j] => i = j

\* A rollback has cut a chain of three headers down to two.
C8_Witness ==
    /\ Returned("rollback")
    /\ rb.age = 0
    /\ Len(rb.chain) = 3
    /\ Len(chain) = 2

\* C9: the header at height 0 is the genesis header, and the store holds
\* it under the genesis identity.
C9_Genesis ==
    /\ bitcoin_hash(chain[1]) = genesis
    /\ genesis \in DOMAIN headers
    /\ headers[genesis] = chain[1]

\* rollback(0) has cut a longer chain down to genesis.
C9_Witness ==
    /\ Returned("rollback")
    /\ ret.h = 0
    /\ rb.age = 0
    /\ Len(rb.chain) > 1
    /\ chain = <<rb.chain[1]>>

\* C10: the store holds every header of the Active Chain under the
\* header's own identity.
C10_ChainInStore ==
    \A i \in 1..Len(chain) :
        /\ bitcoin_hash(chain[i]) \in DOMAIN headers
        /\ headers[bitcoin_hash(chain[i])] = chain[i]

\* After a rollback to a height above 0, with headers outside the chain.
C10_Witness ==
    /\ Returned("rollback")
    /\ rb.age = 0
    /\ ret.h >= 1
    /\ Len(rb.chain) > Len(chain)
    /\ Cardinality(DOMAIN headers) > Len(chain)

\* C11: the cached tip field is the identity of the last header of the
\* Active Chain.
C11_TipCached == tip = bitcoin_hash(Last(chain))

\* The identities get_block is asked for: those of the digest, and 0.
Identities == 0..61

\* C12: get_block(id) finds a header exactly when id is the identity of a
\* header of the Active Chain, and then returns that header and its
\* position; it finds neither the headers that only the store holds nor
\* the headers a rollback has just removed.
C12_GetBlock ==
    /\ \A id \in Identities :
          LET onChain == {i \in 1..Len(chain) : bitcoin_hash(chain[i]) = id}
          IN /\ (get_block(chain, id) # <<>>) <=> (onChain # {})
             /\ \A i \in onChain : get_block(chain, id) = <<i - 1, chain[i]>>
             /\ (id \in DOMAIN headers /\ headers[id] \notin SetOf(chain))
                   => get_block(chain, id) = <<>>
    /\ (Returned("rollback") /\ rb.age = 0)
          => \A h \in Removed(rb) : get_block(chain, bitcoin_hash(h)) = <<>>

\* A rollback has removed a header, the store holds a header that is not on
\* the chain, and the chain is longer than genesis alone.
C12_Witness ==
    /\ Returned("rollback")
    /\ rb.age = 0
    /\ Removed(rb) # {}
    /\ Len(chain) >= 2
    /\ \E id \in DOMAIN headers : headers[id] \notin SetOf(chain)

\* C13: the iteration yields height()+1 pairs, of heights 0, 1, ...,
\* height() in this order, the pair of height i with the header at index i
\* of the Active Chain, the last pair with the header of tip().
C13_Iter ==
    /\ Len(iter(chain)) = height(chain) + 1
    /\ \A i \in 1..Len(iter(chain)) : iter(chain)[i] = <<i - 1, chain[i]>>
    /\ \A i \in 2..Len(iter(chain)) : iter(chain)[i][1] > iter(chain)[i - 1][1]
    /\ iter(chain)[1][1] = 0
    /\ Last(iter(chain)) = <<height(chain), Tip(chain)[2]>>

\* An import has made a chain of three headers.
C13_Witness ==
    /\ Returned("import_blocks")
    /\ Len(chain) = 3
    /\ Len(iter(chain)) = 3

\* C15: the pair an import_blocks call returns is the identity of tip() and
\* the value of height() in the state the call leaves.
C15_ImportResult ==
    Returned("import_blocks")
        => ret.val = <<Tip(chain)[1], height(chain)>>

\* An import has returned the pair of a chain that it has changed: the
\* batch holds the header of the new tip.
C15_Witness ==
    /\ Returned("import_blocks")
    /\ Len(chain) >= 2
    /\ Last(chain) \in SetOf(ret.batch)
    /\ ret.val[2] = Len(chain) - 1

\* The heights get_block_by_height is asked for.
Heights == 0..(MaxRollback + 1)

\* C18: get_block_by_height(h) is the header at index h of the Active
\* Chain when h <= height() and not-found otherwise; after rollback(k) it is
\* not-found for every h > k, and after rollback(0) it is genesis for h = 0.
C18_ByHeight ==
    /\ \A h \in Heights :
          get_block_by_height(chain, h) =
              IF h <= height(chain) THEN <<chain[h + 1]>> ELSE <<>>
    /\ Returned("rollback")
          => /\ \A h \in Heights : h > ret.h => get_block_by_height(chain, h) = <<>>
             /\ ret.h = 0 => get_block_by_height(chain, 0) = <<headers[genesis]>>

\* rollback(1) has cut a chain of three headers.
C18_Witness ==
    /\ Returned("rollback")
    /\ rb.age = 0
    /\ ret.h = 1
    /\ Len(rb.chain) = 3
    /\ get_block_by_height(chain, 1) # <<>>

\* C19: a rollback that returns removes from the store the headers that
\* were on the Active Chain above h and nothing else, leaves every other
\* entry and the genesis identity as they were, and rollback(height())
\* changes neither the store, the chain nor the tip.
C19_RollbackFrame ==
    [][(ret'.call = "rollback" /\ ret'.status = "Ok")
         => /\ DOMAIN headers' =
                  DOMAIN headers \ {bitcoin_hash(chain[i]) : i \in (ret'.h + 2)..Len(chain)}
            /\ \A k \in DOMAIN headers' : headers'[k] = headers[k]
            /\ genesis' = genesis
            /\ ret'.h = height(chain)
                  => (headers' = headers /\ chain' = chain /\ tip' = tip)]_vars

\* A rollback has removed a header and left a header that is not on the
\* chain in the store.
C19_Witness ==
    /\ Returned("rollback")
    /\ rb.age = 0
    /\ Removed(rb) # {}
    /\ \E id \in DOMAIN headers : headers[id] \notin SetOf(chain)
    /\ \A id \in DOMAIN headers : headers[id] = rb.headers[id]

\* C14: Cache::from on a vector of zero headers reports the error
\* EmptyChain.
C14_EmptyChain ==
    (ret.call = "from" /\ ret.batch = <<>>) => ret.status = "EmptyChain"

\* C16: for every identity t of the store, branch succeeds exactly when
\* the predecessor links from t lead to the genesis identity, and then
\* yields the headers from genesis to t.
C16_BranchIffGenesis ==
    \A t \in DOMAIN headers : branch(headers, genesis, t) = GenesisPath(headers, genesis, t)

\* C17: a walk of branch makes no more iterations than the store has
\* headers.
C17_WalkBounded == Len(walk.acc) <= Cardinality(DOMAIN headers)

\* What a caller sees of a Cache: its store, chain, tip and the pair
\* returned, or that the call panicked.
Outcome(st) ==
    IF st.status = "Ok" THEN st
    ELSE [headers |-> <<>>, chain |-> <<>>, tip |-> 0, status |-> st.status, val |-> <<>>]

\* C20: from one state, importing a batch A and then a batch B, B and then
\* A, or the headers of both in one call in either order, ends in the same
\* store, chain, tip and height; importing a batch once more changes
\* nothing.
C20_OrderFree ==
    Alive =>
      \A C \in Batches : \A k \in 0..Len(C) : \A s \in 1..NumSeeds :
        LET A == SubSeq(C, 1, k)
            B == SubSeq(C, k + 1, Len(C))
            one == ImportOp(Cur, C, 1)
        IN /\ Outcome(ImportOp(ImportOp(Cur, A, s), B, s)) = Outcome(one)
           /\ Outcome(ImportOp(ImportOp(Cur, B, s), A, 1)) = Outcome(one)
           /\ Outcome(ImportOp(Cur, B \o A, s)) = Outcome(one)
           /\ Outcome(ImportOp(one, C, s)) = Outcome(one)

\* A rollback has left a branch in the store that is preferred to the
\* chain, so that the first of two imports already changes the chain.
C20_Witness ==
    /\ Returned("rollback")
    /\ ~Selected(headers, genesis, chain)
    /\ \E C \in Batches :
          /\ Len(C) = 2
          /\ ImportOp(Cur, C, 1).status = "Ok"
          /\ ImportOp(Cur, <<C[1]>>, 1).chain # ImportOp(Cur, C, 1).chain
          /\ ImportOp(Cur, <<C[2]>>, 1).chain # ImportOp(Cur, C, 1).chain
          /\ ImportOp(Cur, <<C[1]>>, 1).chain # chain

====
